---- MODULE Spec2Model ----
(***************************************************************************)
(* A model of sqlfluff's reflow utilities:                                 *)
(*   src/src/sqlfluff/utils/reflow/depthmap.py  (DepthInfo, DepthMap)      *)
(*   src/src/sqlfluff/utils/reflow/elements.py  (ReflowBlock, ReflowPoint) *)
(*                                                                         *)
(* Leaves (raw segments) are records [uuid, type, raw, pos]: raw is the    *)
(* text as a sequence of one-character strings, pos is <<line, column>> of *)
(* the working location, or NoPos for a segment without a pos_marker.      *)
(* Python lists and tuples are sequences, dicts are functions, None is the *)
(* record None.                                                            *)
(***************************************************************************)
EXTENDS Integers, Sequences, FiniteSets, TLC

----------------------------------------------------------------------------
(* Python built-ins used by the code. *)

None == [none |-> TRUE]

Min(a, b) == IF a < b THEN a ELSE b

Max(a, b) == IF a > b THEN a ELSE b

Range(s) == {s[i] : i \in DOMAIN s}

\* x in s, for a list s
InSeq(x, s) == \E i \in DOMAIN s : s[i] = x

\* s[:k], k >= 0
Take(s, k) == SubSeq(s, 1, Min(k, Len(s)))

\* s[:-n], n > 0
DropLast(s, n) == SubSeq(s, 1, Max(Len(s) - n, 0))

\* s[-n:], n > 0
LastN(s, n) == SubSeq(s, Max(Len(s) - n, 0) + 1, Len(s))

\* s.index(x), for x in s
IndexOf(s, x) == CHOOSE i \in DOMAIN s : s[i] = x /\ \A j \in 1..(i - 1) : s[j] # x

\* " " * n
Spaces(n) == [i \in 1..Max(n, 0) |-> " "]

\* the list s without its element at index i (list.pop(i), list.remove(s[i]))
RemoveAt(s, i) == SubSeq(s, 1, i - 1) \o SubSeq(s, i + 1, Len(s))

RECURSIVE Concat(_)
\* "".join(raws)
Concat(ss) == IF ss = <<>> THEN <<>> ELSE Head(ss) \o Concat(Tail(ss))

----------------------------------------------------------------------------
(* depthmap.py *)

\* _stack_pos_interpreter
_stack_pos_interpreter(path_step) ==
    IF path_step.idx = 0 /\ path_step.idx = path_step.len - 1 THEN "solo"
    ELSE IF path_step.idx = 0 THEN "start"
    ELSE IF path_step.idx = path_step.len - 1 THEN "end"
    ELSE ""

\* DepthInfo.from_raw_and_stack: hash(ps.segment) is the branch node's identity
from_raw_and_stack(stack) ==
    LET stack_hashes == [i \in DOMAIN stack |-> stack[i].segment.hash]
    IN  [stack_depth |-> Len(stack),
         stack_hashes |-> stack_hashes,
         stack_hash_set |-> Range(stack_hashes),
         stack_class_types |-> [i \in DOMAIN stack |-> stack[i].segment.class_types],
         stack_positions |-> [i \in DOMAIN stack |-> _stack_pos_interpreter(stack[i])]]

\* a variant that takes the union of the two stacks
common_hashes_union(self, other) == self.stack_hash_set \cup Range(other.stack_hashes)

\* DepthInfo.common_with: the set intersection
common_hashes(self, other) == self.stack_hash_set \cap Range(other.stack_hashes)

\* DepthInfo.common_with: the assertion "shares no common ancestor" passes
common_with_ok(self, other) == common_hashes(self, other) # {}

\* DepthInfo.common_with: the value returned when the assertion passes
common_with(self, other) ==
    LET common_depth == Cardinality(common_hashes(self, other))
    IN  Take(self.stack_hashes, common_depth)

\* DepthInfo.trim
trim(self, amount) ==
    IF amount = 0 THEN self
    ELSE [stack_depth |-> self.stack_depth - amount,
          stack_hashes |-> DropLast(self.stack_hashes, amount),
          stack_hash_set |-> self.stack_hash_set \ Range(LastN(self.stack_hashes, amount)),
          stack_class_types |-> DropLast(self.stack_class_types, amount),
          stack_positions |-> DropLast(self.stack_positions, amount)]

----------------------------------------------------------------------------
(* Raw segments (leaves), their positions and the lint fixes. *)

NoPos == <<0, 0>>

\* seg.is_type(*types)
is_type(seg, types) == seg.type \in types

\* pos_marker.working_loc_after(raw): a newline moves to the start of the next line
working_loc_after(pos, raw) ==
    IF InSeq("\n", raw) THEN <<pos[1] + 1, 1>> ELSE <<pos[1], pos[2] + Len(raw)>>

\* seg.get_start_loc()
get_start_loc(seg) == seg.pos

\* seg.get_end_loc()
get_end_loc(seg) == working_loc_after(seg.pos, seg.raw)

\* Python's tuple comparison a < b on (line, column)
LocLess(a, b) == a[1] < b[1] \/ (a[1] = b[1] /\ a[2] < b[2])

\* LintFix(edit_type, anchor, edit)
LintFix(edit_type, anchor, edit) == [edit_type |-> edit_type, anchor |-> anchor, edit |-> edit]

\* LintFix.delete(s)
LintFixDelete(s) == LintFix("delete", s, <<>>)

\* WhitespaceSegment(): one space, no pos_marker, a new uuid
WhitespaceSegment(uuid) == [uuid |-> uuid, type |-> "whitespace", raw |-> <<" ">>, pos |-> NoPos]

\* ReflowElement.raw
ElementRaw(segments) == Concat([i \in DOMAIN segments |-> segments[i].raw])

----------------------------------------------------------------------------
(* elements.py: ReflowPoint._process_spacing *)

RECURSIVE SpacingLoop(_, _, _, _, _)
\* the loop over segment_buffer: <<removal_buffer, last_whitespace>> after it
SpacingLoop(segment_buffer, strip_newlines, i, removal_buffer, last_whitespace) ==
    IF i > Len(segment_buffer) THEN <<removal_buffer, last_whitespace>>
    ELSE LET seg == segment_buffer[i] IN
         IF is_type(seg, {"whitespace"})
         THEN SpacingLoop(segment_buffer, strip_newlines, i + 1,
                          removal_buffer, Append(last_whitespace, seg))
         ELSE IF is_type(seg, {"newline", "end_of_file"})
         THEN IF strip_newlines /\ is_type(seg, {"newline"})
              THEN SpacingLoop(segment_buffer, strip_newlines, i + 1,
                               Append(removal_buffer, seg), last_whitespace)
              ELSE SpacingLoop(segment_buffer, strip_newlines, i + 1,
                               removal_buffer \o last_whitespace, <<>>)
         ELSE SpacingLoop(segment_buffer, strip_newlines, i + 1,
                          removal_buffer, last_whitespace)

\* a variant that removes only the whitespace next to the first one
AdjoiningRemovalOne(removal_buffer, last_whitespace) ==
    IF Len(last_whitespace) >= 2
    THEN Append(removal_buffer, last_whitespace[2])
    ELSE removal_buffer

\* the "adjoining whitespace" step after the loop: the final removal_buffer
AdjoiningRemoval(removal_buffer, last_whitespace) ==
    IF Len(last_whitespace) >= 2
    THEN removal_buffer \o Tail(last_whitespace)
    ELSE removal_buffer

\* a variant that never strips a newline
_process_spacing_no_strip(segment_buffer, strip_newlines) ==
    LET looped == SpacingLoop(segment_buffer, FALSE, 1, <<>>, <<>>)
        last_whitespace == looped[2]
        removal_buffer == AdjoiningRemoval(looped[1], last_whitespace)
    IN  [buffer |-> SelectSeq(segment_buffer, LAMBDA s : ~InSeq(s, removal_buffer)),
         last_whitespace |-> last_whitespace,
         fixes |-> [i \in DOMAIN removal_buffer |-> LintFixDelete(removal_buffer[i])]]

\* ReflowPoint._process_spacing
_process_spacing(segment_buffer, strip_newlines) ==
    LET looped == SpacingLoop(segment_buffer, strip_newlines, 1, <<>>, <<>>)
        last_whitespace == looped[2]
        removal_buffer == AdjoiningRemoval(looped[1], last_whitespace)
    IN  [buffer |-> SelectSeq(segment_buffer, LAMBDA s : ~InSeq(s, removal_buffer)),
         last_whitespace |-> last_whitespace,
         fixes |-> [i \in DOMAIN removal_buffer |-> LintFixDelete(removal_buffer[i])]]

----------------------------------------------------------------------------
(* The parse tree, as the reflow code reads it.  A tree is a function from *)
(* segment uuids to [uuid, types, parent, children, raw, pos, is_code];    *)
(* parent is 0 for the root and children is <<>> for a raw segment.        *)

RECURSIVE AncestorsUp(_, _)
\* the ancestors of segment x, nearest first
AncestorsUp(tree, x) ==
    IF x \notin DOMAIN tree \/ tree[x].parent = 0 THEN <<>>
    ELSE <<tree[x].parent>> \o AncestorsUp(tree, tree[x].parent)

Reverse(s) == [i \in DOMAIN s |-> s[Len(s) + 1 - i]]

\* a.path_to(x): the segments from a down to the parent of x, [] when x is not below a
path_to(tree, a, x) ==
    LET up == AncestorsUp(tree, x)
    IN  IF InSeq(a, up) THEN Reverse(SubSeq(up, 1, IndexOf(up, a))) ELSE <<>>

\* p.recursive_crawl(seg_type): p and the segments below it that are of the type
recursive_crawl(tree, p, seg_type) ==
    {x \in DOMAIN tree : (x = p \/ InSeq(p, AncestorsUp(tree, x))) /\ seg_type \in tree[x].types}

RECURSIVE raw_segments(_, _)
\* p.raw_segments: the raw segments below p, in order
raw_segments(tree, p) ==
    IF tree[p].children = <<>> THEN <<p>>
    ELSE Concat([i \in DOMAIN tree[p].children |-> raw_segments(tree, tree[p].children[i])])

----------------------------------------------------------------------------
(* elements.py: ReflowBlock and ReflowPoint *)

single == <<"single">>

touch == <<"touch">>

any == <<"any">>

\* dict.get(key, None), None read as the empty string
DictGet(d, key) == IF key \in DOMAIN d THEN d[key] ELSE ""

\* ReflowBlock.from_config: the spacing_within overrides of the ancestors
stack_spacing_configs_of(depth_info, spacing_within) ==
    LET idxs == {i \in DOMAIN depth_info.stack_hashes :
                    i \in DOMAIN depth_info.stack_class_types
                    /\ spacing_within[depth_info.stack_class_types[i]] # ""}
        \* a later entry of the zip overwrites an earlier one with the same hash
        last(h) == CHOOSE i \in idxs : depth_info.stack_hashes[i] = h
                       /\ \A j \in idxs : depth_info.stack_hashes[j] = h => j <= i
    IN  [h \in {depth_info.stack_hashes[i] : i \in idxs} |->
            spacing_within[depth_info.stack_class_types[last(h)]]]

\* ReflowBlock.from_config
from_config(segments, spacing_before, spacing_after, spacing_within, depth_info) ==
    [segments |-> segments,
     spacing_before |-> spacing_before,
     spacing_after |-> spacing_after,
     depth_info |-> depth_info,
     stack_spacing_configs |-> stack_spacing_configs_of(depth_info, spacing_within)]

\* a variant that reads the override of the root, the first common ancestor
within_constraint_of_root(prev_block, common) ==
    DictGet(prev_block.stack_spacing_configs, common[1])

\* _determine_constraints: the override of the most immediate common ancestor
within_constraint_of(prev_block, common) ==
    DictGet(prev_block.stack_spacing_configs, common[Len(common)])

\* ReflowPoint._determine_constraints
_determine_constraints(prev_block, next_block, strip_newlines) ==
    LET pre_constraint == IF prev_block # None THEN prev_block.spacing_after ELSE single
        post_constraint == IF next_block # None THEN next_block.spacing_before ELSE single
        default == [err |-> "", pre |-> pre_constraint, post |-> post_constraint,
                    strip |-> strip_newlines]
    IN  IF prev_block # None /\ next_block # None
        THEN IF ~common_with_ok(prev_block.depth_info, next_block.depth_info)
             THEN [default EXCEPT !.err = "AssertionError"]
             ELSE LET common == common_with(prev_block.depth_info, next_block.depth_info)
                      within_constraint == within_constraint_of(prev_block, common)
                  IN  IF common = <<>> THEN [default EXCEPT !.err = "IndexError"]
                      ELSE IF within_constraint = "" THEN default
                      ELSE IF within_constraint \in {"touch", "inline"}
                      THEN [err |-> "",
                            pre |-> IF pre_constraint # any THEN touch ELSE pre_constraint,
                            post |-> IF post_constraint # any THEN touch ELSE post_constraint,
                            strip |-> IF within_constraint = "inline" THEN TRUE
                                      ELSE strip_newlines]
                      ELSE [default EXCEPT !.err = "NotImplementedError"]
        ELSE default

RECURSIVE AlignScopeNearest(_, _, _, _, _, _)
\* a variant that stops at the first segment matching align_within
AlignScopeNearest(tree, rpath, i, align_within, align_boundary, parent_segment) ==
    IF i > Len(rpath) THEN parent_segment
    ELSE IF align_within \in tree[rpath[i]].types THEN rpath[i]
    ELSE IF align_boundary \in tree[rpath[i]].types THEN parent_segment
    ELSE AlignScopeNearest(tree, rpath, i + 1, align_within, align_boundary, parent_segment)

RECURSIVE AlignScopeLoop(_, _, _, _, _, _)
\* _determine_aligned_inline_spacing: the loop over path_to(next_seg)[::-1];
\* 0 stands for parent_segment = None
AlignScopeLoop(tree, rpath, i, align_within, align_boundary, parent_segment) ==
    IF i > Len(rpath) THEN parent_segment
    ELSE LET ps == rpath[i]
             found == IF align_within \in tree[ps].types THEN ps ELSE parent_segment
         IN  IF align_boundary \in tree[ps].types THEN found
             ELSE AlignScopeLoop(tree, rpath, i + 1, align_within, align_boundary, found)

RECURSIVE AlignMaxLoopLast(_, _, _, _, _, _)
\* a variant that keeps the line position found for the last sibling, not the largest
AlignMaxLoopLast(tree, raws, i, siblings, last_code, max_desired_line_pos) ==
    IF i > Len(raws) THEN max_desired_line_pos
    ELSE LET seg == raws[i]
             hit == last_code # 0 /\ \E sibling \in siblings : tree[seg].pos = tree[sibling].pos
             loc == working_loc_after(tree[last_code].pos, tree[last_code].raw)
         IN  AlignMaxLoopLast(tree, raws, i + 1, siblings,
                              IF tree[seg].is_code THEN seg ELSE last_code,
                              IF hit THEN loc[2] ELSE max_desired_line_pos)

RECURSIVE AlignMaxLoop(_, _, _, _, _, _)
\* _determine_aligned_inline_spacing: the loop over parent_segment.raw_segments;
\* last_code 0 stands for None
AlignMaxLoop(tree, raws, i, siblings, last_code, max_desired_line_pos) ==
    IF i > Len(raws) THEN max_desired_line_pos
    ELSE LET seg == raws[i]
             hit == last_code # 0 /\ \E sibling \in siblings : tree[seg].pos = tree[sibling].pos
             loc == working_loc_after(tree[last_code].pos, tree[last_code].raw)
             new_max == IF hit /\ loc[2] > max_desired_line_pos THEN loc[2]
                        ELSE max_desired_line_pos
         IN  AlignMaxLoop(tree, raws, i + 1, siblings,
                          IF tree[seg].is_code THEN seg ELSE last_code, new_max)

\* stands for the AttributeError of reading a position of a segment without pos_marker
AttributeError == <<"AttributeError">>

\* ReflowPoint._determine_aligned_inline_spacing
_determine_aligned_inline_spacing(root_segment, root, whitespace_seg, next_seg, segment_type, align_within, align_boundary) ==
    LET parent_segment ==
            AlignScopeLoop(root_segment, Reverse(path_to(root_segment, root, next_seg.uuid)),
                           1, align_within, align_boundary, 0)
        siblings ==
            {sibling \in recursive_crawl(root_segment, parent_segment, segment_type) :
                ~\E ps \in Range(path_to(root_segment, parent_segment, sibling)) :
                    align_boundary \in root_segment[ps].types}
        max_desired_line_pos ==
            AlignMaxLoop(root_segment, raw_segments(root_segment, parent_segment), 1,
                         siblings, 0, 0)
    IN  IF parent_segment = 0 THEN <<" ">>
        ELSE IF \E sibling \in siblings :
                    /\ root_segment[sibling].pos[1] = next_seg.pos[1]
                    /\ root_segment[sibling].pos[2] # next_seg.pos[2]
        THEN <<" ">>
        ELSE IF whitespace_seg.pos = NoPos THEN AttributeError
        ELSE Spaces(1 + max_desired_line_pos - whitespace_seg.pos[2])

\* RawSegment.edit(raw): the segment with the text raw or, when raw is empty, its own
\* text, and a new uuid
SegEdit(seg, raw, uuid) == [seg EXCEPT !.raw = IF raw = <<>> THEN seg.raw ELSE raw,
                                       !.uuid = uuid]

\* a variant that leaves the point alone only when both sides are "any"
AnyAppliesBoth(pre_constraint, post_constraint) ==
    pre_constraint = any /\ post_constraint = any

\* _handle_respace__inline_with_space: "any" in [pre_constraint, post_constraint]
AnyApplies(pre_constraint, post_constraint) == any \in {pre_constraint, post_constraint}

\* _handle_respace__inline_with_space: "touch" in [pre_constraint, post_constraint]
TouchApplies(pre_constraint, post_constraint) == touch \in {pre_constraint, post_constraint}

\* a variant that makes the delete fix and forgets to pop the whitespace
WithSpaceTouchKeep(segment_buffer, ws_seg, ws_idx) ==
    [err |-> "", buffer |-> segment_buffer, fixes |-> <<LintFix("delete", ws_seg, <<>>)>>]

\* _handle_respace__inline_with_space: the "touch" branch
WithSpaceTouch(segment_buffer, ws_seg, ws_idx) ==
    [err |-> "", buffer |-> RemoveAt(segment_buffer, ws_idx),
     fixes |-> <<LintFix("delete", ws_seg, <<>>)>>]

\* ReflowPoint._handle_respace__inline_with_space
_handle_respace__inline_with_space(pre_constraint, post_constraint, next_block, root_segment, root, segment_buffer, last_whitespace, fresh) ==
    LET ws_seg == last_whitespace[1]
        ws_idx == IndexOf(segment_buffer, ws_seg)
        aligned == Head(post_constraint) = "align" /\ next_block # None
        desired_space ==
            IF aligned
            THEN _determine_aligned_inline_spacing(
                     root_segment, root, ws_seg, next_block.segments[1], post_constraint[2],
                     IF Len(post_constraint) > 2 THEN post_constraint[3] ELSE "",
                     IF Len(post_constraint) > 3 THEN post_constraint[4] ELSE "")
            ELSE <<" ">>
    IN  IF AnyApplies(pre_constraint, post_constraint)
        THEN [err |-> "", buffer |-> segment_buffer, fixes |-> <<>>]
        ELSE IF TouchApplies(pre_constraint, post_constraint)
        THEN WithSpaceTouch(segment_buffer, ws_seg, ws_idx)
        ELSE IF aligned \/ (pre_constraint = single /\ post_constraint = single)
        THEN IF aligned /\ Len(post_constraint) < 2
             THEN [err |-> "IndexError", buffer |-> segment_buffer, fixes |-> <<>>]
             ELSE IF aligned /\ (next_block.segments[1].pos = NoPos
                                 \/ desired_space = AttributeError)
             THEN [err |-> "AttributeError", buffer |-> segment_buffer, fixes |-> <<>>]
             ELSE IF ws_seg.raw # desired_space
             THEN LET new_seg == SegEdit(ws_seg, desired_space, fresh)
                  IN  [err |-> "",
                       buffer |-> [segment_buffer EXCEPT ![ws_idx] = new_seg],
                       fixes |-> <<LintFix("replace", ws_seg, <<new_seg>>)>>]
             ELSE [err |-> "", buffer |-> segment_buffer, fixes |-> <<>>]
        ELSE [err |-> "NotImplementedError", buffer |-> segment_buffer, fixes |-> <<>>]

\* _handle_respace__inline_without_space: the index of the first existing fix whose
\* edit holds the insertion, 0 when the loop finds none
FindFix(existing_fixes, insertion) ==
    LET holds(i) == existing_fixes[i].edit # <<>>
                    /\ \E j \in DOMAIN existing_fixes[i].edit :
                          existing_fixes[i].edit[j].uuid = insertion.uuid
    IN  IF \E i \in DOMAIN existing_fixes : holds(i)
        THEN CHOOSE i \in DOMAIN existing_fixes : holds(i) /\ \A j \in 1..(i - 1) : ~holds(j)
        ELSE 0

\* a variant that anchors a creation on both blocks when both are there
NewCreationFixesBoth(prev_block, next_block, fresh) ==
    (IF prev_block # None
     THEN <<LintFix("create_after", prev_block.segments[Len(prev_block.segments)],
                    <<WhitespaceSegment(fresh)>>)>>
     ELSE <<>>)
    \o (IF next_block # None
        THEN <<LintFix("create_before", next_block.segments[1],
                       <<WhitespaceSegment(fresh)>>)>>
        ELSE <<>>)

\* _handle_respace__inline_without_space: the new_fixes of the "creating new" branch
NewCreationFixes(prev_block, next_block, fresh) ==
    IF prev_block # None
    THEN <<LintFix("create_after", prev_block.segments[Len(prev_block.segments)],
                   <<WhitespaceSegment(fresh)>>)>>
    ELSE IF next_block # None
    THEN <<LintFix("create_before", next_block.segments[1], <<WhitespaceSegment(fresh)>>)>>
    ELSE <<>>

\* ReflowPoint._handle_respace__inline_without_space
_handle_respace__inline_without_space(pre_constraint, post_constraint, prev_block, next_block, segment_buffer, existing_fixes, fresh) ==
    LET unchanged == [err |-> "", buffer |-> segment_buffer, fixes |-> existing_fixes,
                      edited |-> FALSE]
        appended == Append(segment_buffer, WhitespaceSegment(fresh))
        existing_fix ==
            IF prev_block # None /\ prev_block.segments[Len(prev_block.segments)].pos = NoPos
            THEN "after"
            ELSE IF next_block # None /\ next_block.segments[1].pos = NoPos
            THEN "before"
            ELSE ""
        insertion == IF existing_fix = "after"
                     THEN prev_block.segments[Len(prev_block.segments)]
                     ELSE next_block.segments[1]
        f == FindFix(existing_fixes, insertion)
    IN  IF {touch, any} \cap {pre_constraint, post_constraint} # {}
        THEN unchanged
        ELSE IF pre_constraint = single /\ post_constraint = single
        THEN IF existing_fix # ""
             THEN IF existing_fixes = <<>> \/ f = 0
                  THEN [unchanged EXCEPT !.err = "ValueError"]
                  ELSE [err |-> "", buffer |-> appended, edited |-> TRUE,
                        fixes |-> [existing_fixes EXCEPT ![f].edit =
                                      IF existing_fix = "before"
                                      THEN <<WhitespaceSegment(fresh + 1)>> \o @
                                      ELSE @ \o <<WhitespaceSegment(fresh + 1)>>]]
             ELSE [err |-> "", buffer |-> appended, edited |-> TRUE,
                   fixes |-> existing_fixes
                             \o NewCreationFixes(prev_block, next_block, fresh + 1)]
        ELSE [unchanged EXCEPT !.err = "NotImplementedError"]

\* respace_point: the branch for a buffer that still holds a newline or end_of_file
RespaceNewlineCase(self_segments, segment_buffer, last_whitespace, new_fixes) ==
    LET keep == [err |-> "", buffer |-> segment_buffer, new_fixes |-> new_fixes]
        ws_seg == last_whitespace[1]
        ws_idx == IndexOf(self_segments, ws_seg)
        prev_seg == self_segments[ws_idx - 1]
    IN  IF Len(last_whitespace) = 1 /\ ws_idx > 1 /\ is_type(prev_seg, {"newline"})
        THEN IF prev_seg.pos = NoPos \/ ws_seg.pos = NoPos
             THEN [keep EXCEPT !.err = "AssertionError"]
             ELSE IF LocLess(get_end_loc(prev_seg), get_start_loc(ws_seg))
             THEN [err |-> "",
                   buffer |-> RemoveAt(segment_buffer, IndexOf(segment_buffer, ws_seg)),
                   new_fixes |-> Append(new_fixes, LintFix("delete", ws_seg, <<>>))]
             ELSE keep
        ELSE keep

\* ReflowPoint.respace_point: [err, fixes, point]; err is "" when the call returns,
\* and the name of the exception otherwise.  root_segment is the tree and root its
\* root; fresh is the first unused uuid.
respace_point(self_segments, prev_block, next_block, root_segment, root, fixes, strip_newlines, fresh) ==
    LET constraints == _determine_constraints(prev_block, next_block, strip_newlines)
        raised(e) == [err |-> e, fixes |-> fixes, point |-> self_segments]
        spaced == _process_spacing(self_segments, constraints.strip)
    IN  IF constraints.err # "" THEN raised(constraints.err)
        ELSE IF \E i \in DOMAIN spaced.buffer :
                    is_type(spaced.buffer[i], {"newline", "end_of_file"})
        THEN LET r == RespaceNewlineCase(self_segments, spaced.buffer,
                                         spaced.last_whitespace, spaced.fixes)
             IN  IF r.err # "" THEN raised(r.err)
                 ELSE [err |-> "", fixes |-> fixes \o r.new_fixes, point |-> r.buffer]
        ELSE IF spaced.last_whitespace # <<>>
        THEN LET r == _handle_respace__inline_with_space(
                          constraints.pre, constraints.post, next_block, root_segment, root,
                          spaced.buffer, spaced.last_whitespace, fresh)
             IN  IF r.err # "" THEN raised(r.err)
                 ELSE [err |-> "", fixes |-> fixes \o (spaced.fixes \o r.fixes),
                       point |-> r.buffer]
        ELSE LET r == _handle_respace__inline_without_space(
                          constraints.pre, constraints.post, prev_block, next_block,
                          spaced.buffer, fixes, fresh)
             IN  IF r.err # "" THEN raised(r.err)
                 ELSE [err |-> "", fixes |-> r.fixes \o spaced.fixes, point |-> r.buffer]

----------------------------------------------------------------------------
(* Inputs: the leaves of a point, built from a sequence of shapes. *)

\* the longest leaf buffer given to _process_spacing on its own
MaxBuf == 3

Shapes == {"ws1", "ws2", "nl", "eof", "meta"}

ShapeType(shape) ==
    CASE shape \in {"ws1", "ws2"} -> "whitespace"
      [] shape = "nl" -> "newline"
      [] shape = "eof" -> "end_of_file"
      [] OTHER -> "indent"

ShapeRaw(shape) ==
    CASE shape = "ws1" -> <<" ">>
      [] shape = "ws2" -> <<" ", " ">>
      [] shape = "nl" -> <<"\n">>
      [] OTHER -> <<>>

ShapeSeqs(n) == UNION {[1..k -> Shapes] : k \in 0..n}

RECURSIVE MkLeaves(_, _, _, _, _)
\* the leaves of the shapes from index i on: uuids from uuid0 + i, positions running
\* on from pos, with text missing (a position gap) before the leaf at index gapAt
MkLeaves(shapes, i, uuid0, pos, gapAt) ==
    IF i > Len(shapes) THEN <<>>
    ELSE LET at == IF gapAt = i THEN <<pos[1], pos[2] + 2>> ELSE pos
             leaf == [uuid |-> uuid0 + i, type |-> ShapeType(shapes[i]),
                      raw |-> ShapeRaw(shapes[i]), pos |-> at]
         IN  <<leaf>> \o MkLeaves(shapes, i + 1, uuid0, working_loc_after(at, leaf.raw), gapAt)

----------------------------------------------------------------------------
(* Inputs: parse trees.  Segments are numbered from the root, 1; a segment *)
(* with no children is a raw segment.                                      *)

\* the number of segments of a tree
MaxNodes == 3

RECURSIVE SortedSeq(_)
\* the numbers of S in ascending order
SortedSeq(S) ==
    IF S = {} THEN <<>>
    ELSE LET m == CHOOSE x \in S : \A y \in S : x <= y
         IN  <<m>> \o SortedSeq(S \ {m})

\* every parent map on 2..n in which a parent precedes its children
ParentMaps(n) == {par \in [2..n -> 1..n] : \A c \in 2..n : par[c] < c}

BranchNodes(par) == {1} \cup {par[c] : c \in DOMAIN par}

\* the tree of a parent map, types giving the class types of the branches below the root
MkTree(par, types) ==
    [x \in {1} \cup DOMAIN par |->
        [uuid |-> x,
         types |-> IF x = 1 THEN {"file"}
                   ELSE IF x \in DOMAIN types THEN types[x] ELSE {"raw"},
         parent |-> IF x = 1 THEN 0 ELSE par[x],
         children |-> SortedSeq({c \in DOMAIN par : par[c] = x}),
         raw |-> <<>>,
         pos |-> <<1, x>>,
         is_code |-> FALSE]]

RawIds(tree) == {x \in DOMAIN tree : tree[x].children = <<>>}

\* BaseSegment.path_to as PathSteps: (segment, idx, len) for each ancestor of raw
PathSteps(tree, raw) ==
    LET path == path_to(tree, 1, raw)
        below(i) == IF i = Len(path) THEN raw ELSE path[i + 1]
    IN  [i \in DOMAIN path |->
            [segment |-> [hash |-> path[i], class_types |-> tree[path[i]].types],
             idx |-> IndexOf(tree[path[i]].children, below(i)) - 1,
             len |-> Len(tree[path[i]].children)]]

\* DepthMap.__init__ (from_parent, from_raws_and_root): one DepthInfo per raw segment
DepthMapInit(tree) == [raw \in RawIds(tree) |-> from_raw_and_stack(PathSteps(tree, raw))]

----------------------------------------------------------------------------
(* Inputs: a run of blocks and points.  Block k (k = 0..n) may be absent   *)
(* at either end; point g (g = 1..n) lies between blocks g-1 and g.  All   *)
(* leaves are children of one branch, segment 2, below the root.           *)

\* the longest point given to respace_point
MaxLen == 2

align_alias == <<"align", "alias_expression", "select_clause", "bracketed">>

\* the configuration's spacing_within for the class types of a branch
SpacingWithin ==
    [ts \in {{"file"}, {"select_clause"}, {"bracketed"}, {"object_reference"}, {"raw"},
             {"odd"}} |->
        CASE ts = {"bracketed"} -> "touch"
          [] ts = {"object_reference"} -> "inline"
          [] ts = {"odd"} -> "single"
          [] OTHER -> ""]

BlockUuid(k) == 10 * (k + 1)

\* a block's only segment
BlockLeaf(k, bspec, pos) ==
    [uuid |-> BlockUuid(k),
     type |-> IF bspec.before = align_alias THEN "alias_expression" ELSE "word",
     raw |-> <<"a">>,
     pos |-> IF bspec.has_pos THEN pos ELSE NoPos]

RECURSIVE LayoutFrom(_, _, _, _, _)
\* the leaves of blocks k.. and points k+1.., in order, as [block, point, leaf]
LayoutFrom(bspecs, shapes, gapAts, k, pos) ==
    IF k > Len(shapes) THEN <<>>
    ELSE LET bspec == bspecs[k + 1]
             leaf == BlockLeaf(k, bspec, pos)
             mine == IF bspec.present
                     THEN <<[block |-> k, point |-> 0, leaf |-> leaf]>> ELSE <<>>
             after == IF bspec.present /\ bspec.has_pos
                      THEN working_loc_after(pos, leaf.raw) ELSE pos
             pleaves == IF k < Len(shapes)
                        THEN MkLeaves(shapes[k + 1], 1, BlockUuid(k), after, gapAts[k + 1])
                        ELSE <<>>
             pend == IF pleaves = <<>> THEN after
                     ELSE working_loc_after(pleaves[Len(pleaves)].pos,
                                            pleaves[Len(pleaves)].raw)
         IN  mine \o [i \in DOMAIN pleaves |-> [block |-> 0 - 1, point |-> k + 1,
                                               leaf |-> pleaves[i]]]
                  \o (IF k < Len(shapes) THEN LayoutFrom(bspecs, shapes, gapAts, k + 1, pend)
                      ELSE <<>>)

\* the leaves of a second line inside the branch: a code leaf of the given length,
\* one space, and a sibling of the aligned type; none when the length is 0
OtherLine(length) ==
    IF length = 0 THEN <<>>
    ELSE <<[uuid |-> 91, type |-> "word", raw |-> [i \in 1..length |-> "b"], pos |-> <<5, 1>>],
           [uuid |-> 92, type |-> "whitespace", raw |-> <<" ">>, pos |-> <<5, 1 + length>>],
           [uuid |-> 93, type |-> "alias_expression", raw |-> <<"c">>,
            pos |-> <<5, 2 + length>>]>>

\* the parse tree holding the positioned leaves: root 1, branch 2, the leaves
DocTree(leaves, scope_types) ==
    LET placed == SelectSeq(leaves, LAMBDA l : l.pos # NoPos)
        ids == {placed[i].uuid : i \in DOMAIN placed}
        leafOf(x) == placed[CHOOSE i \in DOMAIN placed : placed[i].uuid = x]
        branch(x, types, parent, children) ==
            [uuid |-> x, types |-> types, parent |-> parent, children |-> children,
             raw |-> <<>>, pos |-> <<1, 1>>, is_code |-> FALSE]
    IN  [x \in {1, 2} \cup ids |->
            IF x = 1 THEN branch(1, {"file"}, 0, <<2>>)
            ELSE IF x = 2
            THEN branch(2, scope_types, 1, [i \in DOMAIN placed |-> placed[i].uuid])
            ELSE [uuid |-> x, types |-> {leafOf(x).type}, parent |-> 2, children |-> <<>>,
                  raw |-> leafOf(x).raw, pos |-> leafOf(x).pos,
                  is_code |-> leafOf(x).type \in {"word", "alias_expression"}]]

\* the depth info of a leaf of branch 2, as the depth map gives it
ScopeDepthInfo(scope_types) ==
    from_raw_and_stack(<<[segment |-> [hash |-> 1, class_types |-> {"file"}],
                          idx |-> 0, len |-> 1],
                         [segment |-> [hash |-> 2, class_types |-> scope_types],
                          idx |-> 0, len |-> 2]>>)

\* a leaf outside the run, the anchor of fixes made before the run was respaced
OuterLeaf == [uuid |-> 3, type |-> "word", raw |-> <<"z">>, pos |-> <<1, 1>>]

\* the pending creation fixes that inserted the blocks without a position: one fix
\* for each group of adjacent inserted blocks, anchored on the positioned block
\* before the group, else on the one after it, else on the outer leaf
InsertionFixes(bspecs, leafOf) ==
    LET n == Len(bspecs) - 1
        inserted(k) == k \in 0..n /\ bspecs[k + 1].present /\ ~bspecs[k + 1].has_pos
        placed(k) == k \in 0..n /\ bspecs[k + 1].present /\ bspecs[k + 1].has_pos
        starts == SortedSeq({k \in 0..n : inserted(k) /\ ~inserted(k - 1)})
        last(k) == CHOOSE j \in k..n : (\A m \in k..j : inserted(m)) /\ ~inserted(j + 1)
        payload(k) == [i \in 1..(last(k) - k + 1) |-> leafOf[k + i - 1]]
    IN  [i \in DOMAIN starts |->
            LET k == starts[i] IN
            IF placed(k - 1) THEN LintFix("create_after", leafOf[k - 1], payload(k))
            ELSE IF placed(last(k) + 1)
            THEN LintFix("create_before", leafOf[last(k) + 1], payload(k))
            ELSE LintFix("create_after", OuterLeaf, payload(k))]

----------------------------------------------------------------------------
(* Inputs: lines that each end in a sibling of the aligned type, below a   *)
(* chain of branches.  Segment 1 is the root, segments 2.. are the chain,  *)
(* outermost first; the lines are children of the innermost branch, and an *)
(* outer line, when there is one, is a child of the outermost branch.      *)

\* the longest chain of branches between the root and the lines
MaxChain == 2

\* the most lines below the innermost branch
MaxLines == 2

\* the class types of a branch of the chain
ChainTypes == {{"select_clause"}, {"bracketed"}, {"select_clause", "bracketed"}}

ChainSeqs == UNION {[1..n -> ChainTypes] : n \in 0..MaxChain}

\* a line: the length of its code leaf (0: the line has none) and the width
\* of the whitespace before its sibling
LineSpecs ==
    {[code |-> 0, ws |-> 1], [code |-> 1, ws |-> 1], [code |-> 1, ws |-> 2],
     [code |-> 2, ws |-> 1]}

LineSeqs == UNION {[1..n -> LineSpecs] : n \in 1..MaxLines}

\* a configuration without spacing_within overrides
NoSpacingWithin == [ts \in ChainTypes \cup {{"file"}} |-> ""]

CodeUuid(i) == 10 * i + 1

SpaceUuid(i) == 10 * i + 2

SiblingUuid(i) == 10 * i + 3

\* the leaves of line i, which is line i + 1 of the text
LineLeaves(i, line) ==
    (IF line.code > 0
     THEN <<[uuid |-> CodeUuid(i), type |-> "word", raw |-> [k \in 1..line.code |-> "b"],
             pos |-> <<i + 1, 1>>]>>
     ELSE <<>>)
    \o <<[uuid |-> SpaceUuid(i), type |-> "whitespace", raw |-> Spaces(line.ws),
          pos |-> <<i + 1, 1 + line.code>>],
         [uuid |-> SiblingUuid(i), type |-> "alias_expression", raw |-> <<"c">>,
          pos |-> <<i + 1, 1 + line.code + line.ws>>]>>

\* the leaves of the outer line, the first line of the text
OuterLine ==
    <<[uuid |-> 5, type |-> "word", raw |-> <<"b", "b", "b">>, pos |-> <<1, 1>>],
      [uuid |-> 6, type |-> "whitespace", raw |-> <<" ">>, pos |-> <<1, 4>>],
      [uuid |-> 7, type |-> "alias_expression", raw |-> <<"c">>, pos |-> <<1, 5>>]>>

\* the parse tree of the lines below the chain
AlignTree(chain, lines, outer) ==
    LET c == Len(chain)
        inner == Concat([i \in DOMAIN lines |-> LineLeaves(i, lines[i])])
        outers == IF outer THEN OuterLine ELSE <<>>
        leaves == outers \o inner
        ids(ls) == [i \in DOMAIN ls |-> ls[i].uuid]
        leafOf(x) == leaves[CHOOSE i \in DOMAIN leaves : leaves[i].uuid = x]
    IN  [x \in (1..(1 + c)) \cup Range(ids(leaves)) |->
            IF x <= 1 + c
            THEN [uuid |-> x,
                  types |-> IF x = 1 THEN {"file"} ELSE chain[x - 1],
                  parent |-> x - 1,
                  children |-> (IF x = 2 THEN ids(outers) ELSE <<>>)
                               \o (IF x < 1 + c THEN <<x + 1>> ELSE ids(inner)),
                  raw |-> <<>>, pos |-> <<1, 1>>, is_code |-> FALSE]
            ELSE [uuid |-> x, types |-> {leafOf(x).type},
                  parent |-> IF InSeq(leafOf(x), outers) THEN 2 ELSE 1 + c,
                  children |-> <<>>, raw |-> leafOf(x).raw, pos |-> leafOf(x).pos,
                  is_code |-> leafOf(x).type \in {"word", "alias_expression"}]]

\* a block holding one leaf of the tree
LeafBlock(root, leaf, spacing_before) ==
    from_config(<<leaf>>, spacing_before, single, NoSpacingWithin,
                from_raw_and_stack(PathSteps(root, leaf.uuid)))

\* line i as respace_point is given it: the point and the blocks beside it
LineCall(root, i, line) ==
    LET leaves == LineLeaves(i, line)
        n == Len(leaves)
    IN  [code |-> line.code, ws |-> line.ws,
         point |-> <<leaves[n - 1]>>,
         prev_block |-> IF line.code > 0 THEN LeafBlock(root, leaves[1], single) ELSE None,
         next_block |-> LeafBlock(root, leaves[n], align_alias)]

----------------------------------------------------------------------------
(* The state of the modelled calls.  Each specification below runs one     *)
(* group of variables and leaves the others idle.                          *)

VARIABLES
    sp_pc,          \* _process_spacing runs: "idle", "start", "once", "twice"
    sp_buffer,      \* the segment_buffer given to the first run
    sp_strip,       \* strip_newlines of both runs
    sp_first,       \* what the first run returned
    sp_second       \* what the second run, on the first's buffer, returned

varsSpacing == <<sp_pc, sp_buffer, sp_strip, sp_first, sp_second>>

VARIABLES
    tree,           \* the parse tree the map was built from
    depth_info,     \* DepthMap.depth_info: uuid -> DepthInfo
    copies,         \* the copy_depth_info calls made
    dm_last         \* the last call on the map and what it returned or raised

varsDepth == <<tree, depth_info, copies, dm_last>>

VARIABLES
    blocks,         \* the blocks of the run, blocks[k + 1] for block k, None when absent
    points,         \* the points of the run as the caller holds them
    fixes,          \* the fixes gathered so far
    root_segment,   \* the parse tree
    next_uuid,      \* the uuid of the next segment created
    budget,         \* the calls still to be made
    stale,          \* the gaps where the caller dropped a returned point that differed
    last            \* the last call: its arguments and what it returned or raised

varsRespace == <<blocks, points, fixes, root_segment, next_uuid, budget, stale, last>>

VARIABLES
    cn_tree,        \* the parse tree
    cn_prev,        \* prev_block, None when absent
    cn_next,        \* next_block, None when absent
    cn_out          \* the call made: the flag passed and what was returned or raised

varsConstraints == <<cn_tree, cn_prev, cn_next, cn_out>>

VARIABLES
    al_root,        \* the parse tree
    al_lines,       \* the lines: for each its point and the blocks beside it
    al_out          \* for each line what respacing its point returned, None before

varsAlign == <<al_root, al_lines, al_out>>

vars == <<varsSpacing, varsDepth, varsRespace, varsConstraints, varsAlign>>


----------------------------------------------------------------------------
(* _process_spacing run twice on a drawn buffer. *)

IdleSpacing ==
    /\ sp_pc = "idle"
    /\ sp_buffer = <<>>
    /\ sp_strip = FALSE
    /\ sp_first = None
    /\ sp_second = None

InitSpacing ==
    /\ sp_pc = "start"
    /\ sp_buffer \in {MkLeaves(sh, 1, 0, <<1, 1>>, 0) : sh \in ShapeSeqs(MaxBuf)}
    /\ sp_strip \in BOOLEAN
    /\ sp_first = None
    /\ sp_second = None

\* _process_spacing(segment_buffer, strip_newlines)
ProcessSpacing ==
    /\ sp_pc = "start"
    /\ sp_first' = _process_spacing(sp_buffer, sp_strip)
    /\ sp_pc' = "once"
    /\ UNCHANGED <<sp_buffer, sp_strip, sp_second>>
    /\ UNCHANGED <<varsDepth, varsRespace, varsConstraints, varsAlign>>

\* _process_spacing again, on the buffer the first run returned
ProcessSpacingAgain ==
    /\ sp_pc = "once"
    /\ sp_second' = _process_spacing(sp_first.buffer, sp_strip)
    /\ sp_pc' = "twice"
    /\ UNCHANGED <<sp_buffer, sp_strip, sp_first>>
    /\ UNCHANGED <<varsDepth, varsRespace, varsConstraints, varsAlign>>

NextSpacing == ProcessSpacing \/ ProcessSpacingAgain

----------------------------------------------------------------------------
(* The depth map: copy_depth_info and common_with on its entries. *)

\* the largest trim amount given to copy_depth_info
MaxTrim == 2

\* the number of copy_depth_info calls followed
MaxCopies == 2

IdleDepth ==
    /\ tree = <<>>
    /\ depth_info = <<>>
    /\ copies = 0
    /\ dm_last = None

InitDepth ==
    /\ tree \in {MkTree(par, <<>>) : par \in ParentMaps(MaxNodes)}
    /\ depth_info = DepthMapInit(tree)
    /\ copies = 0
    /\ dm_last = None

\* the uuid of a segment made after the map was built
NewUuid == MaxNodes + 1

\* a variant that stores the anchor's depth info untrimmed
copy_depth_info_untrimmed(map, anchor, new_segment, amount) ==
    IF anchor \in DOMAIN map
    THEN [err |-> "",
          depth_info |-> [k \in DOMAIN map \cup {new_segment} |->
                             IF k = new_segment THEN map[anchor] ELSE map[k]]]
    ELSE [err |-> "KeyError", depth_info |-> map]

\* a variant that trims the anchor's own entry as well
copy_depth_info_trims_anchor(map, anchor, new_segment, amount) ==
    IF anchor \in DOMAIN map
    THEN [err |-> "",
          depth_info |-> [k \in DOMAIN map \cup {new_segment} |->
                             IF k \in {new_segment, anchor} THEN trim(map[anchor], amount)
                             ELSE map[k]]]
    ELSE [err |-> "KeyError", depth_info |-> map]

\* DepthMap.copy_depth_info(anchor, new_segment, trim) on the dict map, with the
\* KeyError of get_depth_info: [err, depth_info]
copy_depth_info(map, anchor, new_segment, amount) ==
    IF anchor \in DOMAIN map
    THEN [err |-> "",
          depth_info |-> [k \in DOMAIN map \cup {new_segment} |->
                             IF k = new_segment THEN trim(map[anchor], amount)
                             ELSE map[k]]]
    ELSE [err |-> "KeyError", depth_info |-> map]

\* DepthMap.copy_depth_info(anchor, new_segment, trim), get_depth_info included
CopyDepthInfo(anchor, new_segment, amount) ==
    LET r == copy_depth_info(depth_info, anchor, new_segment, amount) IN
    /\ tree # <<>>
    /\ copies < MaxCopies
    /\ copies' = copies + 1
    /\ depth_info' = r.depth_info
    /\ dm_last' = [op |-> "copy_depth_info", err |-> r.err, anchor |-> anchor,
                   new_segment |-> new_segment, trim |-> amount, before |-> depth_info]
    /\ UNCHANGED tree
    /\ UNCHANGED <<varsSpacing, varsRespace, varsConstraints, varsAlign>>

\* the same call made again, straight after the first, with the same arguments
CopyDepthInfoAgain ==
    /\ tree # <<>>
    /\ dm_last # None
    /\ dm_last.op = "copy_depth_info"
    /\ LET r == copy_depth_info(depth_info, dm_last.anchor, dm_last.new_segment,
                                dm_last.trim)
       IN  /\ depth_info' = r.depth_info
           /\ dm_last' = [op |-> "copy_depth_info_again", err |-> r.err,
                          anchor |-> dm_last.anchor, new_segment |-> dm_last.new_segment,
                          trim |-> dm_last.trim, before |-> depth_info,
                          first_err |-> dm_last.err]
    /\ UNCHANGED <<tree, copies>>
    /\ UNCHANGED <<varsSpacing, varsRespace, varsConstraints, varsAlign>>

\* get_depth_info(a).common_with(get_depth_info(b))
CommonWith(a, b) ==
    /\ tree # <<>>
    /\ a \in DOMAIN depth_info
    /\ b \in DOMAIN depth_info
    /\ dm_last' =
          IF common_with_ok(depth_info[a], depth_info[b])
          THEN [op |-> "common_with", err |-> "", a |-> a, b |-> b,
                self |-> depth_info[a], other |-> depth_info[b],
                value |-> common_with(depth_info[a], depth_info[b])]
          ELSE [op |-> "common_with", err |-> "AssertionError", a |-> a, b |-> b,
                self |-> depth_info[a], other |-> depth_info[b], value |-> <<>>]
    /\ UNCHANGED <<tree, depth_info, copies>>
    /\ UNCHANGED <<varsSpacing, varsRespace, varsConstraints, varsAlign>>

NextDepth ==
    \/ \E anchor \in RawIds(tree) \cup {NewUuid}, new_segment \in RawIds(tree) \cup {NewUuid},
          amount \in 0..MaxTrim : CopyDepthInfo(anchor, new_segment, amount)
    \/ CopyDepthInfoAgain
    \/ \E a \in DOMAIN depth_info, b \in DOMAIN depth_info : CommonWith(a, b)

----------------------------------------------------------------------------
(* Respacing the points of a run: ReflowPoint.respace_point, called by the *)
(* sequence with the fixes gathered so far.                                *)

\* the number of respace_point calls followed over one run
MaxCalls == 2

IdleRespace ==
    /\ blocks = <<>>
    /\ points = <<>>
    /\ fixes = <<>>
    /\ root_segment = <<>>
    /\ next_uuid = 0
    /\ budget = 0
    /\ stale = {}
    /\ last = None

\* the state before the first call on a run drawn from the given choices
InitRun(bspecs, shapes, gapAts, scope_types, other, given, calls) ==
    LET layout == LayoutFrom(bspecs, shapes, gapAts, 0, <<1, 1>>)
        n == Len(shapes)
        leafOf == [k \in 0..n |-> BlockLeaf(k, bspecs[k + 1],
                      IF \E i \in DOMAIN layout : layout[i].block = k
                      THEN layout[CHOOSE i \in DOMAIN layout : layout[i].block = k].leaf.pos
                      ELSE NoPos)]
        pointOf(g) == LET es == SelectSeq(layout, LAMBDA e : e.point = g)
                      IN  [i \in DOMAIN es |-> es[i].leaf]
    IN  /\ blocks = [i \in 1..(n + 1) |->
                        IF bspecs[i].present
                        THEN from_config(<<leafOf[i - 1]>>, bspecs[i].before, bspecs[i].after,
                                         SpacingWithin, ScopeDepthInfo(scope_types))
                        ELSE None]
        /\ points = [g \in 1..n |-> pointOf(g)]
        /\ fixes = IF given THEN <<LintFixDelete(OuterLeaf)>> \o InsertionFixes(bspecs, leafOf)
                   ELSE <<>>
        /\ root_segment = DocTree([i \in DOMAIN layout |-> layout[i].leaf] \o OtherLine(other),
                                  scope_types)
        /\ next_uuid = 100
        /\ budget = calls
        /\ stale = {}
        /\ last = None

\* point g is respaced: prev_block and next_block are the blocks beside it, fixes the
\* fixes gathered so far; the caller keeps the returned fixes, and the returned point
\* in place of the old one when take is TRUE
Respace(g, strip_newlines, take) ==
    LET prev_block == blocks[g]
        next_block == blocks[g + 1]
        constraints == _determine_constraints(prev_block, next_block, strip_newlines)
        r == respace_point(points[g], prev_block, next_block, root_segment, 1, fixes,
                           strip_newlines, next_uuid)
    IN  /\ budget > 0
        /\ budget' = budget - 1
        /\ last' = [gap |-> g, strip_newlines |-> strip_newlines, point |-> points[g],
                    fixes |-> fixes, pre |-> constraints.pre, post |-> constraints.post,
                    strip |-> constraints.strip,
                    pruned |-> _process_spacing(points[g], constraints.strip).buffer,
                    again |-> g \in stale, prev |-> prev_block, next |-> next_block,
                    err |-> r.err, out_fixes |-> r.fixes, out_point |-> r.point]
        /\ IF r.err = ""
           THEN /\ fixes' = r.fixes
                /\ next_uuid' = next_uuid + 2
                /\ points' = IF take THEN [points EXCEPT ![g] = r.point] ELSE points
                /\ stale' = IF ~take /\ r.point # points[g] THEN stale \cup {g} ELSE stale
           ELSE UNCHANGED <<fixes, next_uuid, points, stale>>
        /\ UNCHANGED <<blocks, root_segment>>
        /\ UNCHANGED <<varsSpacing, varsDepth, varsConstraints, varsAlign>>

\* the caller swaps the returned point in
RespaceAndTake == \E g \in DOMAIN points, strip_newlines \in BOOLEAN : Respace(g, strip_newlines, TRUE)

\* the caller respaces a point and keeps the old one
RespaceAndKeep == \E g \in DOMAIN points, strip_newlines \in BOOLEAN : Respace(g, strip_newlines, FALSE)

Absent == [present |-> FALSE, before |-> single, after |-> single, has_pos |-> FALSE]

\* the block before the first point: absent, or its spacing_after and whether its
\* segment has a position
FirstSpecs ==
    {Absent} \cup {[present |-> TRUE, before |-> single, after |-> a, has_pos |-> p] :
                      a \in {single, touch, any}, p \in BOOLEAN}

\* the block after the last point
LastSpecs ==
    {Absent} \cup {[present |-> TRUE, before |-> b, after |-> single, has_pos |-> p] :
                      b \in {single, touch, any, align_alias}, p \in BOOLEAN}

\* the class types of the branch: an override can only be read between two blocks
ScopeChoices(bspecs) ==
    {{"select_clause"}} \cup
    (IF \A i \in DOMAIN bspecs : bspecs[i].present
     THEN {{"bracketed"}, {"object_reference"}} ELSE {})

\* where text may be missing: before a whitespace that follows a newline
GapChoices(sh) ==
    {0} \cup {i \in 2..Len(sh) : sh[i] \in {"ws1", "ws2"} /\ sh[i - 1] = "nl"}

\* a second line is read only for an alignment
OtherChoices(bspecs) ==
    {0} \cup (IF \E i \in DOMAIN bspecs : bspecs[i].before = align_alias THEN {3} ELSE {})

\* the caller passes the fixes made so far; a caller that inserted a block may
\* fail to pass the fix that did
GivenChoices(bspecs) ==
    {TRUE} \cup (IF \E i \in DOMAIN bspecs : bspecs[i].present /\ ~bspecs[i].has_pos
                 THEN {FALSE} ELSE {})

\* one point between two optional blocks, respaced once
InitRespace ==
    \E prev \in FirstSpecs, next \in LastSpecs, sh \in ShapeSeqs(MaxLen) :
        \E gapAt \in GapChoices(sh), scope_types \in ScopeChoices(<<prev, next>>),
           other \in OtherChoices(<<prev, next>>), given \in GivenChoices(<<prev, next>>) :
            InitRun(<<prev, next>>, <<sh>>, <<gapAt>>, scope_types, other, given, 1)

NextRespace == RespaceAndTake

\* the blocks at the ends of a longer run
EndSpecs ==
    {Absent} \cup {[present |-> TRUE, before |-> single, after |-> single, has_pos |-> p] :
                      p \in BOOLEAN}

\* the block between two points of a longer run
MidSpecs ==
    {[present |-> TRUE, before |-> single, after |-> a, has_pos |-> p] :
        a \in {single, touch}, p \in BOOLEAN}

\* the points of a longer run
SeqShapes == {<<>>, <<"ws1">>, <<"nl">>}

\* two points between three blocks, respaced MaxCalls times in any order
InitSeq ==
    \E first \in EndSpecs, mid \in MidSpecs, final \in EndSpecs,
       sh1 \in SeqShapes, sh2 \in SeqShapes :
        \E given \in GivenChoices(<<first, mid, final>>) :
            InitRun(<<first, mid, final>>, <<sh1, sh2>>, <<0, 0>>, {"select_clause"}, 0,
                    given, MaxCalls)

NextSeq == RespaceAndTake \/ RespaceAndKeep

----------------------------------------------------------------------------
(* _determine_constraints on two blocks of a drawn tree.  Below the root   *)
(* lies a chain of branches shared by the two blocks' segments, and below  *)
(* the chain each segment may have a branch of its own.                    *)

\* the longest chain of shared branches below the root
MaxShared == 2

\* the class types a branch is drawn from
BranchTypes == {{"select_clause"}, {"bracketed"}, {"object_reference"}, {"odd"}}

TypeSeqs(n) == UNION {[1..k -> BranchTypes] : k \in 0..n}

\* the tree with the shared chain, the branches of the left and of the right segment
\* (each none or one), and the two segments as its last two nodes
ConstraintTree(shared, left, right) ==
    LET deepest == 1 + Len(shared)
        branches == deepest + Len(left) + Len(right)
        types == [x \in 2..branches |->
                     IF x <= deepest THEN shared[x - 1]
                     ELSE IF x <= deepest + Len(left) THEN left[x - deepest]
                     ELSE right[x - deepest - Len(left)]]
        par == [x \in 2..(branches + 2) |->
                   IF x <= deepest THEN x - 1
                   ELSE IF x <= branches THEN deepest
                   ELSE IF x = branches + 1
                   THEN (IF left = <<>> THEN deepest ELSE deepest + 1)
                   ELSE (IF right = <<>> THEN deepest ELSE branches)]
    IN  MkTree(par, types)

\* the two segments of a tree built by ConstraintTree
LeftRaw(t) == Cardinality(DOMAIN t) - 1

RightRaw(t) == Cardinality(DOMAIN t)

\* the block of one raw segment of the tree, with the depth info of the depth map
BlockOf(t, x, spacing_before, spacing_after) ==
    from_config(<<[uuid |-> x, type |-> "word", raw |-> <<"a">>, pos |-> t[x].pos]>>,
                spacing_before, spacing_after, SpacingWithin, DepthMapInit(t)[x])

IdleConstraints ==
    /\ cn_tree = <<>>
    /\ cn_prev = None
    /\ cn_next = None
    /\ cn_out = None

InitConstraints ==
    \E shared \in TypeSeqs(MaxShared), left \in TypeSeqs(1), right \in TypeSeqs(1) :
        LET t == ConstraintTree(shared, left, right) IN
        /\ cn_tree = t
        /\ cn_prev \in {None} \cup {BlockOf(t, LeftRaw(t), single, a) :
                                       a \in {single, touch, any}}
        /\ cn_next \in {None} \cup {BlockOf(t, RightRaw(t), b, single) :
                                       b \in {single, touch, any, align_alias}}
        /\ cn_out = None

\* ReflowPoint._determine_constraints(prev_block, next_block, strip_newlines)
DetermineConstraints(strip_newlines) ==
    /\ cn_tree # <<>>
    /\ cn_out = None
    /\ cn_out' = [strip_newlines |-> strip_newlines,
                  result |-> _determine_constraints(cn_prev, cn_next, strip_newlines)]
    /\ UNCHANGED <<cn_tree, cn_prev, cn_next>>
    /\ UNCHANGED <<varsSpacing, varsDepth, varsRespace, varsAlign>>

NextConstraints == \E strip_newlines \in BOOLEAN : DetermineConstraints(strip_newlines)

----------------------------------------------------------------------------
(* respace_point on the whitespace before each sibling of the drawn lines. *)

IdleAlign ==
    /\ al_root = <<>>
    /\ al_lines = <<>>
    /\ al_out = <<>>

InitAlign ==
    \E chain \in ChainSeqs, lines \in LineSeqs, outer \in BOOLEAN :
        /\ outer => Len(chain) >= 2
        /\ al_root = AlignTree(chain, lines, outer)
        /\ al_lines = [i \in DOMAIN lines |->
                          LineCall(AlignTree(chain, lines, outer), i, lines[i])]
        /\ al_out = [i \in DOMAIN lines |-> None]

\* the point of line i is respaced, the points being taken in the order of the
\* text; parent_segment and desired_space are what
\* _determine_aligned_inline_spacing finds for it
AlignRespace(i) ==
    LET call == al_lines[i]
        next_seg == call.next_block.segments[1]
        r == respace_point(call.point, call.prev_block, call.next_block, al_root, 1, <<>>,
                           FALSE, 100 + i)
    IN  /\ al_out[i] = None
        /\ \A j \in 1..(i - 1) : al_out[j] # None
        /\ al_out' = [al_out EXCEPT ![i] =
               [err |-> r.err, point |-> r.point, fixes |-> r.fixes,
                parent_segment |-> AlignScopeLoop(al_root,
                                       Reverse(path_to(al_root, 1, next_seg.uuid)), 1,
                                       align_alias[3], align_alias[4], 0),
                desired_space |-> _determine_aligned_inline_spacing(
                                      al_root, 1, call.point[1], next_seg, align_alias[2],
                                      align_alias[3], align_alias[4])]]
        /\ UNCHANGED <<al_root, al_lines>>
        /\ UNCHANGED <<varsSpacing, varsDepth, varsRespace, varsConstraints>>

NextAlign == \E i \in DOMAIN al_lines : AlignRespace(i)

----------------------------------------------------------------------------
(* Specifications. *)

\* respace_point on one drawn point between drawn blocks
StartRespace == InitRespace /\ IdleSpacing /\ IdleDepth /\ IdleConstraints /\ IdleAlign

Spec == StartRespace /\ [][NextRespace]_vars

\* respace_point called in sequence over the points of a drawn run
StartSeq == InitSeq /\ IdleSpacing /\ IdleDepth /\ IdleConstraints /\ IdleAlign

SpecSeq == StartSeq /\ [][NextSeq]_vars

\* _process_spacing run twice on drawn buffers
StartSpacing == InitSpacing /\ IdleDepth /\ IdleRespace /\ IdleConstraints /\ IdleAlign

SpecSpacing == StartSpacing /\ [][NextSpacing]_vars

\* the depth map of a drawn tree under copy_depth_info and common_with
StartDepth == InitDepth /\ IdleSpacing /\ IdleRespace /\ IdleConstraints /\ IdleAlign

SpecDepth == StartDepth /\ [][NextDepth]_vars

\* _determine_constraints on the blocks of two segments of a drawn tree
StartConstraints == InitConstraints /\ IdleSpacing /\ IdleDepth /\ IdleRespace /\ IdleAlign

SpecConstraints == StartConstraints /\ [][NextConstraints]_vars

\* respace_point on the whitespace before the aligned siblings of drawn lines
StartAlign == InitAlign /\ IdleSpacing /\ IdleDepth /\ IdleRespace /\ IdleConstraints

SpecAlign == StartAlign /\ [][NextAlign]_vars

----------------------------------------------------------------------------
(* Claims. *)

\* C8: _process_spacing is idempotent: run again with the same flag on the buffer it
\* returned, it returns that buffer unchanged and no deletion edits.
C8_ProcessSpacingIdempotent ==
    sp_pc = "twice" =>
        /\ sp_second.buffer = sp_first.buffer
        /\ sp_second.fixes = <<>>

\* C8 witness: a second run after a first run that stripped a newline, removed
\* trailing whitespace and removed adjoining whitespace.
C8_Witness ==
    /\ sp_pc = "twice"
    /\ sp_strip
    /\ Len(sp_first.fixes) >= 2
    /\ Len(sp_first.buffer) >= 1

\* the longest common prefix of two tuples
LongestCommonPrefix(s, t) ==
    LET agree(k) == \A i \in 1..k : s[i] = t[i]
        k == CHOOSE n \in 0..Min(Len(s), Len(t)) :
                 agree(n) /\ \A m \in (n + 1)..Min(Len(s), Len(t)) : ~agree(m)
    IN  SubSeq(s, 1, k)

CommonWithCalled == dm_last # None /\ dm_last.op = "common_with"

\* what C10 says of a call that returns: the value is the longest common root-first
\* prefix of the two identity tuples, non-empty, no longer than either stack_depth,
\* and every identity in it is in both stacks (and, for an entry the map was built
\* with, an ancestor of that leaf in the tree)
CommonWithIsPrefix ==
    /\ dm_last.err = ""
    /\ dm_last.value = LongestCommonPrefix(dm_last.self.stack_hashes,
                                           dm_last.other.stack_hashes)
    /\ dm_last.value # <<>>
    /\ Len(dm_last.value) <= Min(dm_last.self.stack_depth, dm_last.other.stack_depth)
    /\ \A h \in Range(dm_last.value) :
          /\ InSeq(h, dm_last.self.stack_hashes)
          /\ InSeq(h, dm_last.other.stack_hashes)
          /\ \A x \in {dm_last.a, dm_last.b} :
                (x \in RawIds(tree) /\ depth_info[x] = DepthMapInit(tree)[x])
                    => InSeq(h, AncestorsUp(tree, x))

----------------------------------------------------------------------------
(* Claims about one respace_point call, read from the record of the call.  *)

Called == last # None

Returned == Called /\ last.err = ""

IsWhitespace(seg) == seg.type = "whitespace"

IsBreak(seg) == seg.type \in {"newline", "end_of_file"}

Count(segs, Test(_)) == Cardinality({i \in DOMAIN segs : Test(segs[i])})

IsCreation(fix) == fix.edit_type \in {"create_after", "create_before"}

\* the edits the call appended to the list it was given
Added == SubSeq(last.out_fixes, Len(last.fixes) + 1, Len(last.out_fixes))

\* the edits the call was given, as it returned them
Kept == SubSeq(last.out_fixes, 1, Len(last.fixes))

\* the call spliced one whitespace leaf into the payload of one edit it was given
SplicedOne ==
    /\ Len(last.out_fixes) >= Len(last.fixes)
    /\ \E i \in DOMAIN last.fixes :
          /\ Kept = [last.fixes EXCEPT ![i].edit = Kept[i].edit]
          /\ \E j \in DOMAIN Kept[i].edit :
                /\ IsWhitespace(Kept[i].edit[j])
                /\ RemoveAt(Kept[i].edit, j) = last.fixes[i].edit

\* the number of added edits of one kind anchored on one leaf
AddedOn(edit_type, seg) ==
    Cardinality({i \in DOMAIN Added :
                    Added[i].edit_type = edit_type /\ Added[i].anchor = seg})

\* the added edits that are not creations are deletes of newlines of the point
OnlyNewlineDeletesBeside ==
    \A i \in DOMAIN Added :
        \/ IsCreation(Added[i])
        \/ /\ Added[i].edit_type = "delete"
           /\ Added[i].anchor.type = "newline"
           /\ InSeq(Added[i].anchor, last.point)

\* the returned point holds exactly one whitespace leaf, of one space
OneSpaceReturned ==
    /\ Count(last.out_point, IsWhitespace) = 1
    /\ \A i \in DOMAIN last.out_point :
          IsWhitespace(last.out_point[i]) => last.out_point[i].raw = <<" ">>

SingleSingleNoWhitespace ==
    /\ Returned
    /\ Count(last.point, IsWhitespace) = 0
    /\ last.pre = single
    /\ last.post = single

\* C1 as stated: a call on a point with no whitespace leaf, both constraints single,
\* returns a point with exactly one whitespace leaf of one space, and a list that
\* differs from the one passed in by exactly one creation edit or one splice.
C1_Original ==
    SingleSingleNoWhitespace =>
        /\ OneSpaceReturned
        /\ \/ /\ Kept = last.fixes
              /\ Len(Added) = 1
              /\ IsCreation(Added[1])
           \/ /\ Added = <<>>
              /\ SplicedOne

\* C1 amended: when, besides, no newline or end-of-file leaf is left in the point
\* after pruning, the returned point holds exactly one whitespace leaf of one space;
\* apart from the deletes of stripped newlines the list differs by exactly one
\* creation edit or one splice when there is a block on either side, and by nothing
\* when there is a block on neither side.
C1_SingleSingleInsertsOneSpace ==
    (SingleSingleNoWhitespace /\ Count(last.pruned, IsBreak) = 0) =>
        /\ OneSpaceReturned
        /\ OnlyNewlineDeletesBeside
        /\ IF last.prev = None /\ last.next = None
           THEN /\ Kept = last.fixes
                /\ Count(Added, IsCreation) = 0
           ELSE \/ /\ Kept = last.fixes
                   /\ Count(Added, IsCreation) = 1
                \/ /\ Count(Added, IsCreation) = 0
                   /\ SplicedOne

\* C1 witness: between two positioned blocks a point holding only a meta leaf gets
\* its space by one creation edit.
C1_Witness ==
    /\ SingleSingleNoWhitespace
    /\ last.prev # None /\ last.next # None
    /\ last.prev.segments[1].pos # NoPos /\ last.next.segments[1].pos # NoPos
    /\ Len(last.point) = 1
    /\ Count(last.out_point, IsWhitespace) = 1
    /\ Len(Added) = 1 /\ IsCreation(Added[1])

\* the leaves of the point the call took out
Removed == SelectSeq(last.point, LAMBDA seg : ~InSeq(seg, last.out_point))

\* no whitespace is returned and exactly one delete edit is added for each leaf removed
AllWhitespaceDeleted ==
    /\ Count(last.out_point, IsWhitespace) = 0
    /\ Kept = last.fixes
    /\ Len(Added) = Len(Removed)
    /\ \A i \in DOMAIN Removed : AddedOn("delete", Removed[i]) = 1

TouchTouchWithWhitespace ==
    /\ Returned
    /\ Count(last.point, IsWhitespace) >= 1
    /\ last.pre = touch
    /\ last.post = touch

\* C2 as stated: a call on a point with one or more whitespace leaves, both
\* constraints touch, returns a point with no whitespace leaf and exactly one delete
\* edit for each leaf removed.
C2_Original == TouchTouchWithWhitespace => AllWhitespaceDeleted

\* C2 amended: that holds when no newline or end-of-file leaf is left in the point
\* after pruning.
C2_TouchTouchDeletesWhitespace ==
    (TouchTouchWithWhitespace /\ Count(last.pruned, IsBreak) = 0) => AllWhitespaceDeleted

\* C2 witness: a point of two whitespace leaves between touching blocks is emptied
\* by two delete edits.
C2_Witness ==
    /\ TouchTouchWithWhitespace
    /\ Count(last.point, IsWhitespace) = 2
    /\ last.out_point = <<>>
    /\ Len(Added) = 2

\* the leaves the call put into the payload of an edit it was given
SplicedLeaves ==
    Concat([i \in DOMAIN last.fixes |->
               IF i \in DOMAIN Kept
               THEN SelectSeq(Kept[i].edit, LAMBDA seg : ~InSeq(seg, last.fixes[i].edit))
               ELSE <<>>])

\* the leaves the call's creation edits insert
CreatedLeaves ==
    Concat([i \in DOMAIN Added |-> IF IsCreation(Added[i]) THEN Added[i].edit ELSE <<>>])

\* the leaves one input leaf becomes under the call's delete and replace edits
LeafApplied(seg) ==
    IF AddedOn("delete", seg) >= 1 THEN <<>>
    ELSE IF AddedOn("replace", seg) >= 1
    THEN Added[CHOOSE i \in DOMAIN Added :
                   Added[i].edit_type = "replace" /\ Added[i].anchor = seg].edit
    ELSE <<seg>>

\* the point's input leaves with the call's edits applied; the inserted leaves go
\* where the returned point has them, at the end
EditsApplied ==
    Concat([i \in DOMAIN last.point |-> LeafApplied(last.point[i])])
        \o CreatedLeaves \o SplicedLeaves

SameText(a, b) == a.type = b.type /\ a.raw = b.raw

\* C4 as stated: the call's edits applied to the point's input leaves give the text of
\* the returned point, and the returned point neither loses nor gains a leaf for
\* which the call produced no edit.
C4_Original ==
    Returned =>
        /\ ElementRaw(EditsApplied) = ElementRaw(last.out_point)
        /\ \A i \in DOMAIN last.point :
              ~InSeq(last.point[i], last.out_point) =>
                  AddedOn("delete", last.point[i]) + AddedOn("replace", last.point[i]) >= 1
        /\ \A i \in DOMAIN last.out_point :
              ~InSeq(last.out_point[i], last.point) =>
                  \E j \in DOMAIN EditsApplied :
                      SameText(EditsApplied[j], last.out_point[i])

\* the same, for the calls that have a block on at least one side
C4_WithABlock == (last # None /\ (last.prev # None \/ last.next # None)) => C4_Original

OneWhitespaceSurvives ==
    /\ Called
    /\ Count(last.pruned, IsBreak) = 0
    /\ Count(last.pruned, IsWhitespace) = 1

\* the whitespace leaf left after pruning
Survivor == last.pruned[CHOOSE i \in DOMAIN last.pruned : IsWhitespace(last.pruned[i])]

NoEditTargets(seg) == \A i \in DOMAIN Added : Added[i].anchor # seg

\* C5: with no newline or end-of-file leaf and one whitespace leaf left after pruning,
\* the call returns by the precedence any > touch > single: with an "any" on either
\* side the leaf is kept unchanged and no edit targets it; else with a "touch" on
\* either side the leaf is deleted by one delete edit; else with "single" on both
\* sides the returned whitespace is one space, by one replace edit when the leaf
\* was not one space and by no edit when it was.
C5_ConstraintPrecedence ==
    OneWhitespaceSurvives =>
        IF any \in {last.pre, last.post}
        THEN /\ last.err = ""
             /\ InSeq(Survivor, last.out_point)
             /\ Count(last.out_point, IsWhitespace) = 1
             /\ NoEditTargets(Survivor)
        ELSE IF touch \in {last.pre, last.post}
        THEN /\ last.err = ""
             /\ Count(last.out_point, IsWhitespace) = 0
             /\ AddedOn("delete", Survivor) = 1
             /\ AddedOn("replace", Survivor) = 0
        ELSE (last.pre = single /\ last.post = single) =>
             /\ last.err = ""
             /\ OneSpaceReturned
             /\ IF Survivor.raw = <<" ">>
                THEN InSeq(Survivor, last.out_point) /\ NoEditTargets(Survivor)
                ELSE /\ AddedOn("replace", Survivor) = 1
                     /\ AddedOn("delete", Survivor) = 0

\* C5 witness: a whitespace between an "any" side and a "touch" side is kept.
C5_Witness ==
    /\ OneWhitespaceSurvives
    /\ last.pre = any
    /\ last.post = touch
    /\ last.err = ""
    /\ InSeq(Survivor, last.out_point)

NewlineThenWhitespaceStripped ==
    /\ Called
    /\ last.strip_newlines
    /\ Len(last.point) = 2
    /\ last.point[1].type = "newline"
    /\ IsWhitespace(last.point[2])

BothDeleted ==
    /\ last.out_point = <<>>
    /\ Kept = last.fixes
    /\ Len(Added) = 2
    /\ AddedOn("delete", last.point[1]) = 1
    /\ AddedOn("delete", last.point[2]) = 1

C9_Original ==
    Returned =>
        /\ Kept = [i \in DOMAIN last.fixes |-> [last.fixes[i] EXCEPT !.edit = Kept[i].edit]]
        /\ \A i \in DOMAIN Added : IsCreation(Added[i]) => i = Len(Added)

\* the same, for the calls that make no delete edit
C9_NoDeletes ==
    (Returned /\ \A i \in DOMAIN Added : Added[i].edit_type # "delete") => C9_Original

----------------------------------------------------------------------------
(* Claims about a sequence of respace_point calls. *)

\* the edit is a creation that puts a whitespace leaf into gap g: next to the block
\* before the gap or next to the block after it, as the edit's anchor or as an
\* inserted leaf of its payload
InsertsInto(fix, g) ==
    LET n == Len(fix.edit)
        before == IF blocks[g] = None THEN None
                  ELSE blocks[g].segments[Len(blocks[g].segments)]
        after == IF blocks[g + 1] = None THEN None ELSE blocks[g + 1].segments[1]
    IN  /\ IsCreation(fix)
        /\ n >= 1
        /\ \/ /\ fix.edit_type = "create_after"
              /\ fix.anchor = before
              /\ IsWhitespace(fix.edit[1])
           \/ /\ fix.edit_type = "create_before"
              /\ fix.anchor = after
              /\ IsWhitespace(fix.edit[n])
           \/ \E j \in 2..n : IsWhitespace(fix.edit[j]) /\ fix.edit[j - 1] = before
           \/ \E j \in 1..(n - 1) : IsWhitespace(fix.edit[j]) /\ fix.edit[j + 1] = after

\* C3 as stated: however the points of a run are respaced, each call with the list the
\* previous call returned, the list never holds two creation edits that insert
\* whitespace into the same gap.
C3_Original ==
    \A g \in DOMAIN points :
        \A i, j \in DOMAIN fixes :
            (InsertsInto(fixes[i], g) /\ InsertsInto(fixes[j], g)) => i = j

\* the same, while the caller has always gone on with the points returned to it
C3_PointsTaken == stale = {} => C3_Original

\* a creation edit made for one gap and a later call on the same gap
C3_Reached ==
    /\ last # None
    /\ budget = 0
    /\ \E i \in DOMAIN fixes : InsertsInto(fixes[i], last.gap)

----------------------------------------------------------------------------
(* Claims about _determine_constraints. *)

\* the nearest segment of the tree above both x and y
NearestShared(t, x, y) ==
    LET up == AncestorsUp(t, x)
    IN  up[CHOOSE i \in DOMAIN up :
               /\ InSeq(up[i], AncestorsUp(t, y))
               /\ \A j \in 1..(i - 1) : ~InSeq(up[j], AncestorsUp(t, y))]

\* the configured spacing_within of a segment of the tree
OverrideOf(t, x) == SpacingWithin[t[x].types]

OwnPre == IF cn_prev = None THEN single ELSE cn_prev.spacing_after

OwnPost == IF cn_next = None THEN single ELSE cn_next.spacing_before

SharedOverride ==
    OverrideOf(cn_tree, NearestShared(cn_tree, LeftRaw(cn_tree), RightRaw(cn_tree)))

\* C6: with both blocks present and a "touch" or "inline" override on their most
\* immediate shared ancestor, _determine_constraints returns for each side "any" if
\* the block's own constraint was "any" and "touch" otherwise, and strip_newlines
\* true exactly when the caller passed true or the override is "inline"; with no
\* override on that ancestor, or a block absent, it returns the blocks' own values
\* ("single" for an absent block) and the caller's strip_newlines.
C6_DetermineConstraints ==
    cn_out # None =>
        IF cn_prev # None /\ cn_next # None /\ SharedOverride \in {"touch", "inline"}
        THEN cn_out.result =
                 [err |-> "",
                  pre |-> IF OwnPre = any THEN any ELSE touch,
                  post |-> IF OwnPost = any THEN any ELSE touch,
                  strip |-> (cn_out.strip_newlines \/ SharedOverride = "inline")]
        ELSE (cn_prev = None \/ cn_next = None \/ SharedOverride = "") =>
             cn_out.result =
                 [err |-> "", pre |-> OwnPre, post |-> OwnPost,
                  strip |-> cn_out.strip_newlines]

\* C6 witness: an "inline" override on the most immediate shared ancestor, below a
\* shared ancestor with none, raises a "single" side to "touch", leaves an "any" side,
\* and turns strip_newlines on.
C6_Witness ==
    /\ cn_out # None
    /\ cn_prev # None /\ cn_next # None
    /\ SharedOverride = "inline"
    /\ \E x \in DOMAIN cn_tree :
          /\ InSeq(x, AncestorsUp(cn_tree, LeftRaw(cn_tree)))
          /\ InSeq(x, AncestorsUp(cn_tree, RightRaw(cn_tree)))
          /\ OverrideOf(cn_tree, x) = ""
    /\ OwnPre = single /\ OwnPost = any
    /\ ~cn_out.strip_newlines
    /\ cn_out.result.pre = touch /\ cn_out.result.post = any /\ cn_out.result.strip

----------------------------------------------------------------------------
(* Claims about the entries of the depth map. *)

\* the three parallel tuples are stack_depth long and the set is the set of the
\* identity tuple
WellFormed(info) ==
    /\ Len(info.stack_hashes) = info.stack_depth
    /\ Len(info.stack_class_types) = info.stack_depth
    /\ Len(info.stack_positions) = info.stack_depth
    /\ info.stack_hash_set = Range(info.stack_hashes)

\* C11 as stated: every DepthInfo of the map, built from the tree or stored by
\* copy_depth_info with any trim amount, has its three parallel tuples of length
\* stack_depth and its identity set equal to the set of its identity tuple.
C11_Original == \A k \in DOMAIN depth_info : WellFormed(depth_info[k])

\* the same, for the entries copy_depth_info stored with a trim amount that does not
\* exceed the depth of the entry it copied
C11_TrimWithinDepth ==
    (/\ dm_last # None
     /\ dm_last.op = "copy_depth_info"
     /\ dm_last.err = ""
     /\ WellFormed(dm_last.before[dm_last.anchor])
     /\ dm_last.trim <= dm_last.before[dm_last.anchor].stack_depth)
        => WellFormed(depth_info[dm_last.new_segment])

CopyCalled == dm_last # None /\ dm_last.op \in {"copy_depth_info", "copy_depth_info_again"}

\* C12 as stated: copy_depth_info succeeds for every source leaf, new leaf and trim
\* amount: no error is raised and afterwards the map holds an entry for the new leaf.
C12_Original ==
    CopyCalled => (dm_last.err = "" /\ dm_last.new_segment \in DOMAIN depth_info)

\* C12 amended: copy_depth_info succeeds when the source leaf has an entry in the map:
\* the map then holds the trimmed copy under the new leaf, in place of any earlier
\* entry, and every other entry is as before; when the source leaf has no entry the
\* call raises KeyError and the map is unchanged.
C12_CopySucceedsForKnownSource ==
    CopyCalled =>
        IF dm_last.anchor \in DOMAIN dm_last.before
        THEN /\ dm_last.err = ""
             /\ DOMAIN depth_info = DOMAIN dm_last.before \cup {dm_last.new_segment}
             /\ depth_info[dm_last.new_segment] =
                    trim(dm_last.before[dm_last.anchor], dm_last.trim)
             /\ \A k \in DOMAIN dm_last.before :
                    k # dm_last.new_segment => depth_info[k] = dm_last.before[k]
        ELSE /\ dm_last.err = "KeyError"
             /\ depth_info = dm_last.before

\* C12 witness: a copy that overwrites the entry of a leaf of the tree with a trimmed
\* copy of another leaf's entry.
C12_Witness ==
    /\ dm_last # None
    /\ dm_last.op = "copy_depth_info"
    /\ dm_last.err = ""
    /\ dm_last.new_segment \in DOMAIN dm_last.before
    /\ dm_last.anchor # dm_last.new_segment
    /\ dm_last.trim > 0
    /\ depth_info[dm_last.new_segment] # dm_last.before[dm_last.new_segment]

CopiedTwice == dm_last # None /\ dm_last.op = "copy_depth_info_again"

C15_Original ==
    sp_pc \in {"once", "twice"} =>
        /\ Len(sp_first.last_whitespace) <= 1
        /\ \A i \in DOMAIN sp_first.last_whitespace :
              /\ InSeq(sp_first.last_whitespace[i], sp_first.buffer)
              /\ ~\E k \in DOMAIN sp_first.fixes :
                    /\ sp_first.fixes[k].edit_type = "delete"
                    /\ sp_first.fixes[k].anchor = sp_first.last_whitespace[i]

----------------------------------------------------------------------------
(* Claims about aligned spacing, read from what each respaced line got.    *)

Respaced(i) == i \in DOMAIN al_out /\ al_out[i] # None

MatchesWithin(x) == align_alias[3] \in al_root[x].types

MatchesBoundary(x) == align_alias[4] \in al_root[x].types

\* the ancestors of the next leaf of line i, nearest first
NextAncestors(i) == AncestorsUp(al_root, SiblingUuid(i))

\* the place of the nearest ancestor matching boundary, past the end when none does
BoundaryAt(i) ==
    LET up == NextAncestors(i)
    IN  IF \E k \in DOMAIN up : MatchesBoundary(up[k])
        THEN CHOOSE k \in DOMAIN up :
                 MatchesBoundary(up[k]) /\ \A j \in 1..(k - 1) : ~MatchesBoundary(up[j])
        ELSE Len(up) + 1

\* the nearest ancestor matching within that is nearer than the boundary, 0 when none
NearestWithinBelowBoundary(i) ==
    LET up == NextAncestors(i)
        ks == {k \in DOMAIN up : k < BoundaryAt(i) /\ MatchesWithin(up[k])}
    IN  IF ks = {} THEN 0 ELSE up[CHOOSE k \in ks : \A j \in ks : k <= j]

\* the most distant ancestor matching within that is no further than the boundary,
\* 0 when none
FurthestWithinUpToBoundary(i) ==
    LET up == NextAncestors(i)
        ks == {k \in DOMAIN up : k <= BoundaryAt(i) /\ MatchesWithin(up[k])}
    IN  IF ks = {} THEN 0 ELSE up[CHOOSE k \in ks : \A j \in ks : j <= k]

\* C16: the alignment scope is the nearest ancestor of the next leaf matching
\* within among the ancestors nearer than the nearest one matching boundary: a more
\* distant within ancestor never replaces it, the boundary ancestor is never the
\* scope, and without a within match the spacing is a single space
C16_Original ==
    \A i \in DOMAIN al_out :
        (Respaced(i) /\ al_out[i].err = "") =>
            /\ al_out[i].parent_segment = NearestWithinBelowBoundary(i)
            /\ NearestWithinBelowBoundary(i) = 0 => al_out[i].desired_space = <<" ">>

\* C16 (as the code has it): the alignment scope is the most distant ancestor of the
\* next leaf matching within among the ancestors up to and including the nearest one
\* matching boundary, so a boundary ancestor that also matches within is the scope;
\* without such a match the spacing is a single space and the whitespace is set to it
C16_ScopeIsFurthestWithin ==
    \A i \in DOMAIN al_out :
        (Respaced(i) /\ al_out[i].err = "") =>
            /\ al_out[i].parent_segment = FurthestWithinUpToBoundary(i)
            /\ FurthestWithinUpToBoundary(i) = 0 =>
                  /\ al_out[i].desired_space = <<" ">>
                  /\ Len(al_out[i].point) = 1
                  /\ al_out[i].point[1].raw = <<" ">>

\* a line was respaced whose next leaf has two ancestors matching within nearer than
\* the boundary, and the more distant one is the scope
C16_Witness ==
    \E i \in DOMAIN al_out :
        /\ Respaced(i) /\ al_out[i].err = ""
        /\ NearestWithinBelowBoundary(i) # 0
        /\ al_out[i].parent_segment # NearestWithinBelowBoundary(i)
        /\ al_out[i].parent_segment = FurthestWithinUpToBoundary(i)
        /\ ~MatchesBoundary(al_out[i].parent_segment)

\* the largest member of a set of columns, 0 for the empty set
Largest(cols) == IF cols = {} THEN 0 ELSE CHOOSE m \in cols : \A n \in cols : n <= m

\* the siblings of scope p: the leaves of the aligned type below p with no ancestor
\* matching boundary up to and including p
ScopeSiblings(p) ==
    {x \in DOMAIN al_root :
        /\ align_alias[2] \in al_root[x].types
        /\ InSeq(p, AncestorsUp(al_root, x))
        /\ \A k \in DOMAIN AncestorsUp(al_root, x) :
              (k <= IndexOf(AncestorsUp(al_root, x), p))
                  => ~MatchesBoundary(AncestorsUp(al_root, x)[k])}

\* the code leaves below p that come before leaf x in the text
CodeBefore(p, x) ==
    {y \in DOMAIN al_root :
        /\ al_root[y].children = <<>> /\ al_root[y].is_code
        /\ InSeq(p, AncestorsUp(al_root, y))
        /\ LocLess(al_root[y].pos, al_root[x].pos)}

\* the end columns of the code leaves that directly precede a sibling of scope p
PrecedingEnds(p) ==
    {al_root[y].pos[2] + Len(al_root[y].raw) :
        y \in {y \in DOMAIN al_root :
                  \E x \in ScopeSiblings(p) :
                      /\ y \in CodeBefore(p, x)
                      /\ \A z \in CodeBefore(p, x) :
                            z = y \/ LocLess(al_root[z].pos, al_root[y].pos)}}

\* the column of the whitespace of line i
SpaceColumn(i) == al_lines[i].point[1].pos[2]

\* the width line i is given by the formula, for scope p
FormulaWidth(i, p) == 1 + Largest(PrecedingEnds(p)) - SpaceColumn(i)

\* the column the sibling of line i starts at after the respacing
NewStart(i) == SpaceColumn(i) + Len(al_out[i].point[1].raw)

\* line i was respaced under a scope that holds its sibling
AlignedInScope(i) ==
    /\ Respaced(i) /\ al_out[i].err = ""
    /\ al_out[i].parent_segment # 0
    /\ SiblingUuid(i) \in ScopeSiblings(al_out[i].parent_segment)

=============================================================================
